---- MODULE Spec2Model ----
(***************************************************************************)
(* HigherOrderAccurateGradientImageFilter: the request of the input        *)
(* region (GenerateInputRequestedRegion) and the per-region computation of *)
(* the gradient (DynamicThreadedGenerateData), run by two threads over     *)
(* disjoint pieces of the output requested region.                         *)
(*                                                                         *)
(* Axes are numbered 1..ImageDimension here (the code numbers them from 0).*)
(* A region is [index |-> <<..>>, size |-> <<..>>]; a sample value is an   *)
(* exact rational <<numerator, denominator>> with denominator > 0.         *)
(***************************************************************************)
EXTENDS Integers, Sequences, FiniteSets, TLC

\* ---------------------------------------------------------------- bounds
\* Extent of the input's largest possible region along axis 1 and axis 2.
GridW == 3
GridH == 3
\* Largest order of accuracy tried (m_OrderOfAccuracy ranges over 1..MaxOrder).
MaxOrder == 2

\* TInputImage::ImageDimension
ImageDimension == 2

Axes == 1..ImageDimension
Threads == {1, 2}

\* ------------------------------------------------------------- rationals
Abs(n) == IF n < 0 THEN -n ELSE n

RECURSIVE GCD(_, _)
GCD(a, b) == IF b = 0 THEN a ELSE GCD(b, a % b)

\* n/d in lowest terms with a positive denominator; a zero denominator stands
\* for what a division by zero leaves (an infinity or a NaN, by the sign of n)
Rat(n, d) ==
    IF d = 0 THEN <<IF n > 0 THEN 1 ELSE IF n < 0 THEN -1 ELSE 0, 0>>
    ELSE LET s == IF d < 0 THEN -1 ELSE 1
             g == GCD(Abs(n), Abs(d))
         IN  <<(s * n) \div g, Abs(d) \div g>>

RZero == <<0, 1>>
RAdd(a, b) == Rat(a[1] * b[2] + b[1] * a[2], a[2] * b[2])
RMul(a, b) == Rat(a[1] * b[1], a[2] * b[2])
RInt(n) == <<n, 1>>

\* --------------------------------------------------------------- regions
Region(idx, sz) == [index |-> idx, size |-> sz]

\* the set of indices of a region
Indices(R) ==
    { <<x, y>> : x \in R.index[1]..(R.index[1] + R.size[1] - 1),
                 y \in R.index[2]..(R.index[2] + R.size[2] - 1) }

\* ImageRegion::PadByRadius
PadByRadius(R, r) ==
    Region([i \in Axes |-> R.index[i] - r], [i \in Axes |-> R.size[i] + 2 * r])

\* ImageRegion::Crop, first half: can the region be cropped by `by` at all?
CropPossible(R, by) ==
    \A i \in Axes :
        /\ ~(R.index[i] >= by.index[i] + by.size[i])
        /\ ~(R.index[i] + R.size[i] <= by.index[i])

\* ImageRegion::Crop, second half: the region after cropping (unchanged when
\* cropping is not possible)
CropOneAxis(R, by, i) ==
    LET lowCrop == IF R.index[i] < by.index[i] THEN by.index[i] - R.index[i] ELSE 0
        idx == R.index[i] + lowCrop
        sz1 == R.size[i] - lowCrop
        highCrop == IF idx + sz1 > by.index[i] + by.size[i]
                    THEN idx + sz1 - by.index[i] - by.size[i] ELSE 0
    IN  <<idx, sz1 - highCrop>>

Crop(R, by) ==
    IF ~CropPossible(R, by) THEN R
    ELSE Region([i \in Axes |-> CropOneAxis(R, by, i)[1]],
                [i \in Axes |-> CropOneAxis(R, by, i)[2]])

\* Region::IsInside(index)
Inside(R, p) == \A i \in Axes : p[i] >= R.index[i] /\ p[i] < R.index[i] + R.size[i]

NumberOfPixels(R) == R.size[1] * R.size[2]

\* ------------------------------------------------------- derivative kernel
\* HigherOrderAccurateDerivativeOperator (order 1): the central-difference
\* weight of the sample at offset k from the centre, for order of accuracy n
\* (Khan and Ohba's closed form): (-1)^(k+1) (n!)^2 / (k (n-k)! (n+k)!),
\* antisymmetric in k.
RECURSIVE Factorial(_)
Factorial(n) == IF n <= 0 THEN 1 ELSE n * Factorial(n - 1)

CentralWeight(n, k) ==
    IF k = 0 THEN RZero
    ELSE LET a == Abs(k)
             sgn == (IF a % 2 = 1 THEN 1 ELSE -1) * (IF k < 0 THEN -1 ELSE 1)
         IN  Rat(sgn * Factorial(n) * Factorial(n),
                 a * Factorial(n - a) * Factorial(n + a))

\* SetDirection / SetOrder(1) / SetOrderOfAccuracy / CreateDirectional: the
\* operator is a neighbourhood of radius n along `dir` and 0 elsewhere, its
\* coefficients stored in convolution order (the weight of offset -k at
\* position k).
CreateDirectional(dir, n) ==
    [direction |-> dir,
     radius |-> [i \in Axes |-> IF i = dir THEN n ELSE 0],
     coeffs |-> [j \in 1..(2 * n + 1) |-> CentralWeight(n, (n + 1) - j)]]

\* Neighborhood::GetSize
GetSize(op) == [i \in Axes |-> 2 * op.radius[i] + 1]

\* NeighborhoodOperator::FlipAxes: reverse the order of the coefficients
FlipAxes(op) ==
    [op EXCEPT !.coeffs = [j \in 1..Len(op.coeffs) |-> op.coeffs[Len(op.coeffs) + 1 - j]]]

\* NeighborhoodOperator::ScaleCoefficients
ScaleCoefficients(op, s) ==
    [op EXCEPT !.coeffs = [j \in 1..Len(op.coeffs) |-> RMul(op.coeffs[j], s)]]

\* ------------------------------------------------ boundary-face calculator
\* NeighborhoodAlgorithm::ImageBoundaryFacesCalculator, one pass of its loop
\* over the axes. st holds the faces found so far, the non-boundary region
\* (nbStart, nbSize) and the region still to be split (vrStart, vrSize), which
\* shrinks along each axis already treated so that faces share no corner.
\* R is the region to process (already cropped by the buffered region B).
FaceStep(st, i, R, B, radius) ==
    LET rStart == R.index
        rSize == R.size
        bStart == B.index
        bSize == B.size
        overlapLow0 == (rStart[i] - radius[i]) - bStart[i]
        overlapHigh0 ==
            IF bSize[i] > 2 * radius[i]
            THEN (bStart[i] + bSize[i]) - (rStart[i] + rSize[i] + radius[i])
            ELSE (bStart[i] + radius[i]) - (rStart[i] + rSize[i])
        \* the low face
        overlapLow == IF -overlapLow0 > rSize[i] THEN -rSize[i] ELSE overlapLow0
        lowSize0 == [j \in Axes |-> IF j = i THEN -overlapLow ELSE st.vrSize[j]]
        lowSize == [j \in Axes |-> IF lowSize0[j] > rSize[j] THEN rSize[j] ELSE lowSize0[j]]
        lowFace == Region(st.vrStart, lowSize)
        st1 == IF overlapLow0 < 0
               THEN [faces |-> Append(st.faces, lowFace),
                     vrStart |-> [st.vrStart EXCEPT ![i] = @ - overlapLow],
                     vrSize |-> [st.vrSize EXCEPT ![i] = @ + overlapLow],
                     nbStart |-> [st.nbStart EXCEPT ![i] = @ - overlapLow],
                     nbSize |-> [st.nbSize EXCEPT
                                   ![i] = IF lowSize[i] > @ THEN 0 ELSE @ - lowSize[i]]]
               ELSE st
        \* the high face
        overlapHigh == IF -overlapHigh0 > rSize[i] THEN -rSize[i] ELSE overlapHigh0
        highStart == [j \in Axes |-> IF j = i THEN rStart[j] + rSize[j] + overlapHigh
                                     ELSE st1.vrStart[j]]
        highSize == [j \in Axes |-> IF j = i THEN -overlapHigh ELSE st1.vrSize[j]]
        highFace == Region(highStart, highSize)
        st2 == IF overlapHigh0 < 0
               THEN [faces |-> Append(st1.faces, highFace),
                     vrStart |-> st1.vrStart,
                     vrSize |-> [st1.vrSize EXCEPT ![i] = @ + overlapHigh],
                     nbStart |-> st1.nbStart,
                     nbSize |-> [st1.nbSize EXCEPT
                                   ![i] = IF highSize[i] > @ THEN 0 ELSE @ - highSize[i]]]
               ELSE st1
    IN  st2

RECURSIVE FaceLoop(_, _, _, _, _)
FaceLoop(st, i, R, B, radius) ==
    IF i > ImageDimension THEN st
    ELSE FaceLoop(FaceStep(st, i, R, B, radius), i + 1, R, B, radius)

\* bC(inputImage, regionToProcess, radius): the non-boundary region first, then
\* the boundary faces; no face at all when the region misses the buffered region.
BoundaryFaces(B, regionToProcess, radius) ==
    IF ~CropPossible(regionToProcess, B) THEN << >>
    ELSE LET R == Crop(regionToProcess, B)
             st == FaceLoop([faces |-> << >>, vrStart |-> R.index, vrSize |-> R.size,
                             nbStart |-> R.index, nbSize |-> R.size], 1, R, B, radius)
         IN  <<Region(st.nbStart, st.nbSize)>> \o st.faces

\* ---------------------------------------------------- neighbourhood iterator
\* Neighborhood::Size of an iterator of the given radius
NeighborhoodSize(radius) == (2 * radius[1] + 1) * (2 * radius[2] + 1)

\* Neighborhood::GetStride(i): axis 1 runs fastest
RECURSIVE GetStride(_, _)
GetStride(radius, i) == IF i = 1 THEN 1 ELSE GetStride(radius, i - 1) * (2 * radius[i - 1] + 1)

\* Neighborhood::ComputeNeighborhoodOffsetTable: for each radius, the offset of
\* every neighbour n (0-based) from the centre
OffsetTable ==
    [radius \in [Axes -> 0..MaxOrder] |->
        [n \in 0..(NeighborhoodSize(radius) - 1) |->
            [i \in Axes |-> ((n \div GetStride(radius, i)) % (2 * radius[i] + 1)) - radius[i]]]]

\* Neighborhood::GetOffset(n)
GetOffset(radius, n) == OffsetTable[radius][n]

\* faulty variant, for comparison: the boundary condition is never consulted
NeverNeedToUseBoundaryCondition(F, B, radius) == FALSE

\* ConstNeighborhoodIterator::SetBound: does a walk over region F with this
\* radius ever leave the buffered region B?
NeedToUseBoundaryCondition(F, B, radius) ==
    \E i \in Axes :
        \/ (F.index[i] - radius[i]) - B.index[i] < 0
        \/ (B.index[i] + B.size[i]) - (F.index[i] + F.size[i] + radius[i]) < 0

\* ConstNeighborhoodIterator::InBounds: the whole neighbourhood of p is buffered
InBounds(p, B, radius) ==
    \A i \in Axes : p[i] - radius[i] >= B.index[i]
                    /\ p[i] + radius[i] < B.index[i] + B.size[i]

\* ConstNeighborhoodIterator::GetPixel on a walk over face F, at centre p: is the
\* boundary condition left out of the read?
ReadsDirectly(F, p, B, radius) ==
    ~NeedToUseBoundaryCondition(F, B, radius) \/ InBounds(p, B, radius)

\* ZeroFluxNeumannBoundaryCondition: the nearest buffered index
ZeroFluxNeumann(q, B) ==
    [i \in Axes |-> IF q[i] < B.index[i] THEN B.index[i]
                    ELSE IF q[i] >= B.index[i] + B.size[i] THEN B.index[i] + B.size[i] - 1
                    ELSE q[i]]

\* ConstNeighborhoodIterator::GetPixel(n) at centre p: the index whose sample is
\* read. `direct` says that the boundary condition is not consulted (it is not
\* needed for the face, or the whole neighbourhood of p is buffered): the read
\* is then direct, wherever it lands.
GetPixelIndex(p, n, B, radius, direct) ==
    IF direct THEN [i \in Axes |-> p[i] + GetOffset(radius, n)[i]]
    ELSE ZeroFluxNeumann([i \in Axes |-> p[i] + GetOffset(radius, n)[i]], B)

\* ------------------------------------------------------------------ inputs
\* The input's largest possible region (its valid extent)
LargestPossibleRegion == Region(<<-1, 1>>, <<GridW, GridH>>)

EmptyRegion == Region(<<0, 0>>, <<0, 0>>)

\* every non-empty region inside R
SubRegions(R) ==
    { Q \in { Region(<<x, y>>, <<w, h>>) :
                x \in R.index[1]..(R.index[1] + R.size[1] - 1),
                y \in R.index[2]..(R.index[2] + R.size[2] - 1),
                w \in 1..R.size[1], h \in 1..R.size[2] } :
        \A i \in Axes : Q.index[i] + Q.size[i] <= R.index[i] + R.size[i] }

Shift(R, d) == Region([i \in Axes |-> R.index[i] + d[i]], R.size)

\* The output requested regions tried: inside the valid extent, beside it
\* along axis 1 (so that only the padding may reach it), and far below it.
OutputShifts == { <<0, 0>>, <<GridW, 0>>, <<0, -(GridH + MaxOrder)>> }
OutputRegions ==
    { Shift(Q, d) : Q \in SubRegions(LargestPossibleRegion), d \in OutputShifts }

\* image spacings tried: positive, zero on one axis, negative on one axis
Spacings == { <<2, 1>>, <<1, 0>>, <<0, -1>>, <<-2, 1>> }

\* direction-cosine matrices tried (rows): the identity and a quarter turn
IdentityDirection == << <<1, 0>>, <<0, 1>> >>
Directions == { IdentityDirection, << <<0, -1>>, <<1, 0>> >> }

\* the input's samples, as a function of the index: an irregular texture
InputPixel(p) == (5 * p[1] * p[1] * p[1] + 3 * p[1] * p[2] + 7 * p[2] * p[2] + 2 * p[2]) % 11

\* what a read outside the buffer may return
Garbage == { RInt(0), RInt(7) }

\* an output sample nothing was stored in yet
Unwritten == << >>

\* ------------------------------------------------------------------- state
VARIABLES
    m_UseImageSpacing,   \* bool, set by SetUseImageSpacing
    m_UseImageDirection, \* bool, set by SetUseImageDirection
    m_OrderOfAccuracy,   \* unsigned int, set by SetOrderOfAccuracy
    inputPtr,            \* is an input image connected?
    spacing,             \* the input's spacing, per axis
    direction,           \* the input's direction-cosine matrix
    inRequested,         \* the input's requested region
    inBuffered,          \* the input's buffered region
    outRequested,        \* the output's requested region
    outBuffer,           \* the output's samples: index -> vector, or Unwritten
    writeCount,          \* index -> number of stores into the output there
    request,             \* how GenerateInputRequestedRegion last returned
    phase,               \* "request": regions are negotiated; "generate": threads run
    thr                  \* per thread: the locals of DynamicThreadedGenerateData

vars == <<m_UseImageSpacing, m_UseImageDirection, m_OrderOfAccuracy, inputPtr, spacing,
          direction, inRequested, inBuffered, outRequested, outBuffer, writeCount,
          request, phase, thr>>

config == <<m_UseImageSpacing, m_UseImageDirection, m_OrderOfAccuracy, outRequested>>

IdleThread ==
    [pc |-> "idle", region |-> EmptyRegion, op |-> << >>, radius |-> <<0, 0>>,
     faceList |-> << >>, x_slice |-> << >>, fit |-> 1, k |-> 0,
     gradient |-> << >>, last |-> << >>, reads |-> {}, written |-> {}]

Init ==
    /\ m_UseImageSpacing \in BOOLEAN
    /\ m_UseImageDirection \in BOOLEAN
    /\ m_OrderOfAccuracy \in 1..MaxOrder
    /\ inputPtr = FALSE
    /\ spacing = <<1, 1>>
    /\ direction = IdentityDirection
    /\ inRequested = LargestPossibleRegion
    /\ inBuffered = EmptyRegion
    /\ outRequested \in OutputRegions
    /\ outBuffer = [p \in Indices(LargestPossibleRegion) |-> Unwritten]
    /\ writeCount = [p \in Indices(LargestPossibleRegion) |-> 0]
    /\ request = "none"
    /\ phase = "request"
    /\ thr = [t \in Threads |-> IdleThread]

\* ------------------------------------------------------ region negotiation
\* SetInput: an input image is connected
SetInput ==
    /\ phase = "request"
    /\ ~inputPtr
    /\ inputPtr' = TRUE
    /\ UNCHANGED <<config, spacing, direction, inRequested, inBuffered, outBuffer,
                   writeCount, request, phase, thr>>

\* the radius GenerateInputRequestedRegion pads by: that of a first-derivative
\* operator built along the first axis
RequestRadius(order) == CreateDirectional(1, order).radius[1]

\* faulty variant, for comparison: the superclass is not called: the input's requested region is as it was
StaleInputRequestedRegion == inRequested

\* Superclass::GenerateInputRequestedRegion: the input is asked for the
\* output's requested region
SuperclassInputRequestedRegion == outRequested

\* the padded region before any cropping
PaddedRequestedRegion ==
    PadByRadius(SuperclassInputRequestedRegion, RequestRadius(m_OrderOfAccuracy))

\* faulty variant, for comparison: the request succeeds only when nothing has to be cut
RequestRegionContained ==
    \A i \in Axes :
        /\ PaddedRequestedRegion.index[i] >= LargestPossibleRegion.index[i]
        /\ PaddedRequestedRegion.index[i] + PaddedRequestedRegion.size[i]
              <= LargestPossibleRegion.index[i] + LargestPossibleRegion.size[i]

\* does the crop at the largest possible region succeed?
RequestCropSucceeds == CropPossible(PaddedRequestedRegion, LargestPossibleRegion)

\* faulty variant, for comparison: the region is stored as it was before the padding
StoredRequestedRegionUnpadded ==
    Crop(SuperclassInputRequestedRegion, LargestPossibleRegion)

\* the region stored as the input's requested region, on either path
StoredRequestedRegion == Crop(PaddedRequestedRegion, LargestPossibleRegion)

GenerateInputRequestedRegion ==
    /\ phase = "request"
    /\ IF ~inputPtr
       THEN /\ request' = "skipped"
            /\ UNCHANGED inRequested
       ELSE /\ inRequested' = StoredRequestedRegion
            /\ request' = IF RequestCropSucceeds THEN "ok" ELSE "error"
    /\ UNCHANGED <<config, inputPtr, spacing, direction, inBuffered, outBuffer,
                   writeCount, phase, thr>>

\* --------------------------------------------------------------- scheduling
\* the axis the threader cuts along: the slowest one along which U has more
\* than one sample (the first axis when there is none)
RECURSIVE SplitAxis(_, _)
SplitAxis(U, i) == IF i = 1 \/ U.size[i] > 1 THEN i ELSE SplitAxis(U, i - 1)

\* The ways the threader cuts the output requested region U in two, across the
\* split axis
Splits(U) ==
    LET i == SplitAxis(U, ImageDimension)
    IN  { << Region(U.index, [U.size EXCEPT ![i] = c]),
             Region([U.index EXCEPT ![i] = @ + c], [U.size EXCEPT ![i] = @ - c]) >> :
            c \in 1..(U.size[i] - 1) }

\* The pipeline before the threads start: the requested region was verified to
\* lie in the largest possible region, the upstream filter delivered the input
\* (its spacing, its direction, and a buffer holding at least the requested
\* input region), the output was allocated, and each thread is given its
\* outputRegionForThread (pieces[t]; EmptyRegion for a thread that gets none).
DispatchTo(pieces) ==
    /\ phase = "request"
    /\ request = "ok"
    /\ Indices(outRequested) \subseteq Indices(LargestPossibleRegion)
    /\ inBuffered' \in {inRequested, LargestPossibleRegion}
    /\ spacing' \in Spacings
    /\ direction' \in Directions
    /\ thr' = [t \in Threads |->
                 IF pieces[t] = EmptyRegion THEN IdleThread
                 ELSE [IdleThread EXCEPT !.pc = "ready", !.region = pieces[t]]]
    /\ phase' = "generate"
    /\ UNCHANGED <<config, inputPtr, inRequested, outBuffer, writeCount, request>>

\* the threader gives the whole region to one thread
DispatchWhole == DispatchTo(<<outRequested, EmptyRegion>>)

\* the threader cuts the region in two and gives each thread a piece
DispatchSplit == \E pieces \in Splits(outRequested) : DispatchTo(pieces)

\* ------------------------------------------- DynamicThreadedGenerateData
\* faulty variant, for comparison: FlipAxes is left out
SetUpOperatorUnflipped(i) ==
    IF m_UseImageSpacing
    THEN ScaleCoefficients(CreateDirectional(1, m_OrderOfAccuracy), Rat(1, spacing[i]))
    ELSE CreateDirectional(1, m_OrderOfAccuracy)

\* op[i] as set up for axis i: built along the first axis, flipped, and scaled
\* by 1/spacing[i] when the spacing is used
SetUpOperator(i) ==
    LET flipped == FlipAxes(CreateDirectional(1, m_OrderOfAccuracy))
    IN  IF m_UseImageSpacing
        THEN ScaleCoefficients(flipped, Rat(1, spacing[i]))
        ELSE flipped

\* faulty variant, for comparison: only the spacing of the first axis is tested
SetUpThrowsOnFirstAxisOnly == m_UseImageSpacing = TRUE /\ spacing[1] = 0

\* faulty variant, for comparison: a negative spacing is rejected too
SetUpThrowsOnNonPositive == m_UseImageSpacing = TRUE /\ \E i \in Axes : spacing[i] <= 0

\* the operator set-up throws "Image spacing cannot be zero."
SetUpThrows == m_UseImageSpacing = TRUE /\ \E i \in Axes : spacing[i] = 0

\* the iterator's radius: that of op[0] along its own axis, on every axis
IteratorRadius(op) == [i \in Axes |-> op[1].radius[1]]

\* x_slice[i]: where the window along axis i lies in the neighbourhood
XSlice(radius, op, i) ==
    LET center == NeighborhoodSize(radius) \div 2
    IN  [start |-> center - GetStride(radius, i) * radius[i],
         size |-> GetSize(op[i])[1],
         stride |-> GetStride(radius, i)]

IsEmpty(F) == \E i \in Axes : F.size[i] <= 0

\* the first face at or after position f of the list that has a sample
RECURSIVE FirstNonEmpty(_, _)
FirstNonEmpty(faceList, f) ==
    IF f > Len(faceList) THEN f
    ELSE IF ~IsEmpty(faceList[f]) THEN f
    ELSE FirstNonEmpty(faceList, f + 1)

\* faulty variant, for comparison: the faces of the whole output requested region, not of the thread's own
ThreadFaceListOfWholeOutput(outputRegionForThread, radius) ==
    BoundaryFaces(inBuffered, outRequested, radius)

\* line 152: faceList = bC(inputImage, outputRegionForThread, radius)
ThreadFaceList(outputRegionForThread, radius) ==
    BoundaryFaces(inBuffered, outputRegionForThread, radius)

\* lines 100-165: the operators, the radius, the faces and the slices. With a
\* zero spacing the thread throws; with no face at all, *faceList.begin() is
\* undefined and the thread may end any way.
ThreadSetup(t) ==
    /\ phase = "generate"
    /\ thr[t].pc = "ready"
    /\ IF SetUpThrows
       THEN thr' = [thr EXCEPT ![t].pc = "failed"]
       ELSE \E op \in {[i \in Axes |-> SetUpOperator(i)]} :
            \E radius \in {IteratorRadius(op)} :
            \E faceList \in {ThreadFaceList(thr[t].region, radius)} :
            \E first \in {FirstNonEmpty(faceList, 1)} :
            \E outcome \in IF faceList = << >> THEN {"failed", "done"}
                           ELSE IF first > Len(faceList) THEN {"done"} ELSE {"run"} :
                    thr' = [thr EXCEPT ![t] =
                              [@ EXCEPT !.pc = outcome, !.op = op, !.radius = radius,
                                        !.faceList = faceList,
                                        !.x_slice = [i \in Axes |-> XSlice(radius, op, i)],
                                        !.fit = first, !.k = 0]]
    /\ UNCHANGED <<config, inputPtr, spacing, direction, inRequested, inBuffered,
                   outBuffer, writeCount, request, phase>>

\* faulty variant, for comparison: the rows of the walk are taken as long as the face is high
FaceIndexWrongRowLength(F, k) ==
    <<F.index[1] + (k % F.size[1]), F.index[2] + (k \div F.size[2])>>

\* the k-th index (from 0) of a walk over face F, axis 1 running fastest
FaceIndex(F, k) == <<F.index[1] + (k % F.size[1]), F.index[2] + (k \div F.size[1])>>

\* a read of the input at index q: its sample, or anything when q is not buffered
ReadValue(q, g) == IF Inside(inBuffered, q) THEN RInt(InputPixel(q)) ELSE g

\* The neighbour indices NeighborhoodInnerProduct(slice, nit, op) walks, one per
\* coefficient of op: it starts at the slice's start and advances by its stride
\* until the coefficients are used up. Each is given as the input index that
\* nit.GetPixel reads there, for the iterator at centre p.
SliceIndices(slice, p, op, radius, direct) ==
    [j \in 1..Len(op.coeffs) |->
        GetPixelIndex(p, slice.start + (j - 1) * slice.stride, inBuffered, radius, direct)]

\* sum += coefficient * pixel, from coefficient j on
RECURSIVE InnerProductFrom(_, _, _, _, _)
InnerProductFrom(j, sum, coeffs, window, g) ==
    IF j > Len(coeffs) THEN sum
    ELSE InnerProductFrom(j + 1, RAdd(sum, RMul(coeffs[j], ReadValue(window[j], g))),
                          coeffs, window, g)

\* NeighborhoodInnerProduct: window[j] is the index read for coefficient j
SIP(window, op, g) == InnerProductFrom(1, RZero, op.coeffs, window, g)

\* ImageBase::TransformLocalVectorToPhysicalVector: direction * v
TransformLocalVectorToPhysicalVector(v) ==
    [i \in Axes |-> RAdd(RMul(RInt(direction[i][1]), v[1]),
                         RMul(RInt(direction[i][2]), v[2]))]

\* lines 178-181: gradient[i] = SIP(x_slice[i], nit, op[i]); windows[i] holds the
\* indices read through x_slice[i]
Gradient(windows, op, g) == [i \in Axes |-> SIP(windows[i], op[i], g)]

\* faulty variant, for comparison: the gradient is stored as it is, whatever the flag
StoredValueIgnoringDirection(gradient) == gradient

\* lines 183-190: what is stored in it.Value()
StoredValue(gradient) ==
    IF m_UseImageDirection THEN TransformLocalVectorToPhysicalVector(gradient)
    ELSE gradient

\* the indices one pass of the while loop reads through each slice
SampleWindows(x_slice, p, op, radius, direct) ==
    [i \in Axes |-> SliceIndices(x_slice[i], p, op[i], radius, direct)]

\* all the reads of one pass of the while loop
SampleReads(windows) ==
    UNION { { windows[i][j] : j \in DOMAIN windows[i] } : i \in Axes }

\* lines 169-194, one pass of the while loop (with the loop control that
\* follows it: ++nit, ++it, and the step to the next face with a sample)
ThreadSample(t) ==
    /\ phase = "generate"
    /\ thr[t].pc = "run"
    /\ \E T \in {thr[t]} :
       \E F \in {T.faceList[T.fit]} :
       \E p \in {FaceIndex(F, T.k)} :
       \E direct \in {ReadsDirectly(F, p, inBuffered, T.radius)} :
       \E windows \in {SampleWindows(T.x_slice, p, T.op, T.radius, direct)} :
       \E reads \in {SampleReads(windows)} :
       \E nextFit \in {IF T.k + 1 < NumberOfPixels(F) THEN T.fit
                       ELSE FirstNonEmpty(T.faceList, T.fit + 1)} :
       \E g \in IF reads \subseteq Indices(inBuffered) THEN {RZero} ELSE Garbage :
       \E gradient \in {Gradient(windows, T.op, g)} :
                 /\ outBuffer' = [q \in DOMAIN outBuffer |->
                                    IF q = p THEN StoredValue(gradient) ELSE outBuffer[q]]
                 /\ writeCount' = [q \in DOMAIN writeCount |->
                                    IF q = p THEN writeCount[q] + 1 ELSE writeCount[q]]
                 /\ thr' = [thr EXCEPT ![t] =
                              [@ EXCEPT !.gradient = gradient, !.last = p,
                                        !.reads = @ \cup reads,
                                        !.written = @ \cup {p},
                                        !.fit = nextFit,
                                        !.k = IF nextFit = T.fit THEN T.k + 1 ELSE 0,
                                        !.pc = IF nextFit > Len(T.faceList)
                                               THEN "done" ELSE "run"]]
    /\ UNCHANGED <<config, inputPtr, spacing, direction, inRequested, inBuffered,
                   request, phase>>

\* Two threads, each given a piece of the output requested region
Next ==
    \/ SetInput
    \/ GenerateInputRequestedRegion
    \/ DispatchSplit
    \/ \E t \in Threads : ThreadSetup(t)
    \/ \E t \in Threads : ThreadSample(t)

Spec == Init /\ [][Next]_vars

\* One thread, given the whole output requested region
NextSerial ==
    \/ SetInput
    \/ GenerateInputRequestedRegion
    \/ DispatchWhole
    \/ \E t \in Threads : ThreadSetup(t)
    \/ \E t \in Threads : ThreadSample(t)

SpecSerial == Init /\ [][NextSerial]_vars

\* The negotiation of the regions alone
NextRequest ==
    \/ SetInput
    \/ GenerateInputRequestedRegion

SpecRequest == Init /\ [][NextRequest]_vars

\* ======================================================================
\* Properties
\* ======================================================================
Started(t) == thr[t].pc \in {"run", "done"}
Planned == request \in {"ok", "error"}
Max(a, b) == IF a > b THEN a ELSE b
Min(a, b) == IF a < b THEN a ELSE b

\* the halo radius of the kernel of the configured order of accuracy
KernelRadius == m_OrderOfAccuracy

\* is q within r of region R along every axis?
InPadded(R, r, q) ==
    \A i \in Axes : q[i] >= R.index[i] - r /\ q[i] < R.index[i] + R.size[i] + r

\* the indices of pad(outRequested, KernelRadius)
PaddedIndices ==
    { <<x, y>> :
        x \in (outRequested.index[1] - KernelRadius)..
              (outRequested.index[1] + outRequested.size[1] + KernelRadius - 1),
        y \in (outRequested.index[2] - KernelRadius)..
              (outRequested.index[2] + outRequested.size[2] + KernelRadius - 1) }

ValidIndices == Indices(LargestPossibleRegion)

\* C1: the faces a thread obtained for its region R partition R: every index
\* of R lies in exactly one face, and no face holds an index outside R.
C1_FacesPartitionRegion ==
    \A t \in Threads :
        Started(t) =>
            LET R == thr[t].region
                fl == thr[t].faceList
            IN  /\ \A p \in Indices(R) :
                      Cardinality({f \in 1..Len(fl) : Inside(fl[f], p)}) = 1
                /\ \A f \in 1..Len(fl) : Indices(fl[f]) \subseteq Indices(R)

\* a thread holds a non-empty interior face and at least two non-empty boundary faces
C1_Witness ==
    \E t \in Threads :
        /\ Started(t)
        /\ ~IsEmpty(thr[t].faceList[1])
        /\ Cardinality({f \in 2..Len(thr[t].faceList) : ~IsEmpty(thr[t].faceList[f])}) >= 2

\* ------------------------------------------------------------------ C2
\* One sequential generateForRegion over the whole region U, with nothing
\* interleaved: the sample stored at q, through the face of U that holds q.
SequentialSample(q, faceList, op, radius, x_slice) ==
    LET f == CHOOSE f \in 1..Len(faceList) : Inside(faceList[f], q)
        direct == ReadsDirectly(faceList[f], q, inBuffered, radius)
    IN  StoredValue(Gradient(SampleWindows(x_slice, q, op, radius, direct), op, RZero))

\* The output of that run over U agrees with out: a sample at every index of
\* a face of U, and nothing anywhere else.
IsSequentialOutput(out, U) ==
    \A op \in {[i \in Axes |-> SetUpOperator(i)]} :
    \A radius \in {IteratorRadius(op)} :
    \A faceList \in {ThreadFaceList(U, radius)} :
    \A x_slice \in {[i \in Axes |-> XSlice(radius, op, i)]} :
    \A q \in DOMAIN out :
        IF \E f \in 1..Len(faceList) : Inside(faceList[f], q)
        THEN \E v \in {SequentialSample(q, faceList, op, radius, x_slice)} : out[q] = v
        ELSE out[q] = Unwritten

AllThreadsDone ==
    /\ phase = "generate"
    /\ \A t \in Threads : thr[t].pc \in {"idle", "done"}
    /\ \E t \in Threads : thr[t].pc = "done"

\* C2: once every thread is done with its piece of the output requested
\* region, whatever the interleaving was, the output equals at every index what
\* one sequential run over the whole region stores.
C2_DisjointRegionsAsUnion ==
    AllThreadsDone => IsSequentialOutput(outBuffer, outRequested)

\* both threads finished a piece of more than one sample each
C2_Witness ==
    /\ AllThreadsDone
    /\ \A t \in Threads : thr[t].pc = "done" /\ Cardinality(thr[t].written) >= 2

\* ------------------------------------------------------------------ C3
\* crop(pad(outRequested, r), valid), by intersecting the intervals axis by axis
PadThenCrop(R, r) ==
    LET lo == [i \in Axes |-> Max(R.index[i] - r, LargestPossibleRegion.index[i])]
        hi == [i \in Axes |-> Min(R.index[i] + R.size[i] + r,
                                  LargestPossibleRegion.index[i] + LargestPossibleRegion.size[i])]
    IN  Region(lo, [i \in Axes |-> hi[i] - lo[i]])

\* C3: when GenerateInputRequestedRegion returned without error on connected
\* images, the input's requested region is crop(pad(outRequested, r), valid) and
\* lies inside the valid region.
C3_RequestedIsPadThenCrop ==
    request = "ok" =>
        /\ inRequested = PadThenCrop(outRequested, KernelRadius)
        /\ Indices(inRequested) \subseteq ValidIndices

\* the request succeeded with a padded region that had to be cut
C3_Witness ==
    /\ request = "ok"
    /\ inRequested # PadByRadius(outRequested, KernelRadius)
    /\ inRequested # LargestPossibleRegion
    /\ inRequested # outRequested

\* ------------------------------------------------------------------ C4
PaddedContained == PaddedIndices \subseteq ValidIndices
PaddedOverlaps == PaddedIndices \cap ValidIndices # {}

\* C4 as stated: whenever the padded region is not wholly inside the valid
\* region, the truncated region is stored and the call fails.
C4_TruncationFails ==
    (Planned /\ ~PaddedContained) =>
        /\ request = "error"
        /\ Indices(inRequested) = PaddedIndices \cap ValidIndices

\* C4 amended: a padded region that overlaps the valid region without lying in
\* it is truncated, stored, and the call returns without error (the threads
\* may then run); the call fails only when the two share no index.
C4_TruncationSucceeds ==
    Planned =>
        /\ (PaddedOverlaps /\ ~PaddedContained) =>
              /\ request = "ok"
              /\ Indices(inRequested) = PaddedIndices \cap ValidIndices
        /\ request = "error" <=> ~PaddedOverlaps

\* threads run on an input request that was truncated
C4_Witness ==
    /\ phase = "generate"
    /\ ~PaddedContained
    /\ \E t \in Threads : thr[t].pc = "done"

\* ------------------------------------------------------------------ C8
\* C8: when the padded region lies entirely outside the valid region, the call
\* fails and the region recorded is the uncropped padded region.
C8_OutsideRecordsPadded ==
    (Planned /\ ~PaddedOverlaps) =>
        /\ request = "error"
        /\ Indices(inRequested) = PaddedIndices
        /\ inRequested.index = [i \in Axes |-> outRequested.index[i] - KernelRadius]

\* the call failed on a region entirely outside the valid region
C8_Witness == request = "error" /\ ~PaddedOverlaps

\* ------------------------------------------------------------------ C5
OutputUntouched ==
    \A q \in DOMAIN outBuffer : outBuffer[q] = Unwritten /\ writeCount[q] = 0

ZeroSpacing == \E i \in Axes : spacing[i] = 0
NegativeSpacing == \E i \in Axes : spacing[i] < 0

\* C5: with the spacing in use and zero on some axis, every thread that ran
\* failed, none processed a sample, and the output is as it was before.
C5_ZeroSpacingWritesNothing ==
    (phase = "generate" /\ m_UseImageSpacing /\ ZeroSpacing) =>
        /\ \A t \in Threads : thr[t].pc \in {"idle", "ready", "failed"}
        /\ \A t \in Threads : thr[t].written = {} /\ thr[t].reads = {}
        /\ OutputUntouched

\* two workers were given a piece each and both failed on the zero spacing
C5_Witness ==
    /\ phase = "generate" /\ m_UseImageSpacing /\ ZeroSpacing
    /\ \A t \in Threads : thr[t].pc = "failed"

\* ------------------------------------------------------------------ C9
\* C9 as stated: a negative spacing is rejected the way a zero spacing is.
C9_NegativeSpacingRejected ==
    (phase = "generate" /\ m_UseImageSpacing /\ NegativeSpacing) =>
        /\ \A t \in Threads : thr[t].pc \in {"idle", "ready", "failed"}
        /\ OutputUntouched

\* C9 amended: a thread fails at the operator set-up exactly when the spacing is
\* in use and zero on some axis; a negative spacing alone is not rejected, the
\* kernel of that axis is scaled by the negative 1/spacing and the thread runs.
C9_OnlyZeroSpacingRejected ==
    \A t \in Threads :
        thr[t].pc \in {"run", "done", "failed"} =>
            /\ thr[t].pc = "failed" <=> (m_UseImageSpacing /\ ZeroSpacing)
            /\ (thr[t].pc # "failed" /\ m_UseImageSpacing) =>
                  \A i \in Axes : \A j \in 1..(2 * KernelRadius + 1) :
                      LET w == CentralWeight(KernelRadius, j - (KernelRadius + 1))
                      IN  thr[t].op[i].coeffs[j] = Rat(w[1], w[2] * spacing[i])

\* a thread wrote its whole region under a spacing in use and negative on an axis
C9_Witness ==
    /\ m_UseImageSpacing /\ NegativeSpacing
    /\ \E t \in Threads :
          /\ thr[t].pc = "done"
          /\ thr[t].written = Indices(thr[t].region)
          /\ \E i \in Axes : thr[t].op[i].coeffs[1][1] > 0

\* ------------------------------------------------------------------ C6
\* C6: a thread writes no index outside its region R and, once done, has
\* written every index of R exactly once; every input index it reads lies in
\* crop(pad(R, r), valid).
C6_AccessFootprint ==
    \A t \in Threads :
        Started(t) =>
            /\ thr[t].written \subseteq Indices(thr[t].region)
            /\ \A q \in thr[t].written : writeCount[q] = 1 /\ outBuffer[q] # Unwritten
            /\ thr[t].pc = "done" => thr[t].written = Indices(thr[t].region)
            /\ \A q \in thr[t].reads :
                  q \in ValidIndices /\ InPadded(thr[t].region, KernelRadius, q)

\* a thread is done whose reads were cut at the edge of the valid region and
\* reached beyond its own region
C6_Witness ==
    \E t \in Threads :
        /\ thr[t].pc = "done"
        /\ thr[t].written = Indices(thr[t].region)
        /\ ~(thr[t].reads \subseteq Indices(thr[t].region))
        /\ \E q \in thr[t].written : ~InBounds(q, LargestPossibleRegion, thr[t].radius)

\* ------------------------------------------------------------------ C7
\* direction * v, written out for the two axes
DirectionTimes(v) ==
    << RAdd(RMul(RInt(direction[1][1]), v[1]), RMul(RInt(direction[1][2]), v[2])),
       RAdd(RMul(RInt(direction[2][1]), v[1]), RMul(RInt(direction[2][2]), v[2])) >>

\* C7: the vector stored at the index a thread wrote last is direction * gradient
\* when the direction is in use and the gradient itself otherwise; under the
\* identity direction it is the gradient itself either way.
C7_DirectionApplied ==
    \A t \in Threads :
        thr[t].last # << >> =>
            /\ outBuffer[thr[t].last] =
                  IF m_UseImageDirection THEN DirectionTimes(thr[t].gradient)
                  ELSE thr[t].gradient
            /\ direction = IdentityDirection => outBuffer[thr[t].last] = thr[t].gradient

\* a sample was stored turned: the direction is in use, is not the identity,
\* and the stored vector differs from the raw gradient
C7_Witness ==
    \E t \in Threads :
        /\ thr[t].last # << >>
        /\ m_UseImageDirection /\ direction # IdentityDirection
        /\ outBuffer[thr[t].last] # thr[t].gradient

\* ------------------------------------------------------------------ C10
\* the nearest index of the valid region
ClampToValid(q) ==
    [i \in Axes |->
        Max(LargestPossibleRegion.index[i],
            Min(q[i], LargestPossibleRegion.index[i] + LargestPossibleRegion.size[i] - 1))]

\* coeff_i[k] of C10: the flipped kernel (the weight of offset k - r at k),
\* divided by spacing[i] when the spacing is in use
ExpectedCoefficient(i, k) ==
    LET w == CentralWeight(KernelRadius, k - KernelRadius)
    IN  IF m_UseImageSpacing THEN Rat(w[1], w[2] * spacing[i]) ELSE w

\* sum over k = from..2r of coeff_i[k] * input(clamp(p + (k - r) e_i))
RECURSIVE ExpectedDerivative(_, _, _)
ExpectedDerivative(p, i, from) ==
    IF from > 2 * KernelRadius THEN RZero
    ELSE LET q == ClampToValid([p EXCEPT ![i] = @ + (from - KernelRadius)])
         IN  RAdd(RMul(ExpectedCoefficient(i, from), RInt(InputPixel(q))),
                  ExpectedDerivative(p, i, from + 1))

\* C10: the raw gradient a thread computed at its last index p has, on every
\* axis i, the component sum_k coeff_i[k] * input(clamp(p + (k - r) e_i)).
C10_GradientIsClampedInnerProduct ==
    \A t \in Threads :
        thr[t].last # << >> =>
            \A i \in Axes : thr[t].gradient[i] = ExpectedDerivative(thr[t].last, i, 0)

\* a gradient was computed at a corner of the valid region, where the window
\* is clamped along both axes, and it is not zero on either axis
C10_Witness ==
    \E t \in Threads :
        /\ thr[t].last = LargestPossibleRegion.index
        /\ \A i \in Axes : thr[t].gradient[i][1] # 0

====
